---------------------------- MODULE Spec2Model ----------------------------
(***************************************************************************)
(* A model of the uavcan crate's streaming Deserializer, its bit buffer    *)
(* and the Deserialize impls of primitives and dynamic arrays              *)
(* (src/uavcan/src/deserializer.rs), of the frame header macros            *)
(* (src/uavcan/src/header_macros.rs) and of the transfer frame identifier  *)
(* composition of Frame (src/uavcan/src/lib.rs).                           *)
(*                                                                         *)
(* Byte arrays and the words popped from the buffer are sequences of       *)
(* bytes, least significant byte first; runs of bits are sequences of 0    *)
(* and 1, least significant bit first.  29 bit identifiers are integers.   *)
(***************************************************************************)
EXTENDS Integers, Sequences, FiniteSets, TLC

VARIABLES
    T,                     \* the structure type of Deserializer<T>: its fields, each a list of primitive widths
    orig,                  \* the value the sender packed on the wire
    wire,                  \* the bytes of the transfer: the packed value, then excess bytes
    sent,                  \* how many bytes of wire have been handed to deserialize
    calls,                 \* the lengths of the inputs of the deserialize calls (of the pop_bits calls) made so far
    structure,             \* Deserializer.structure
    current_field_index,   \* Deserializer.current_field_index
    current_type_index,    \* Deserializer.current_type_index
    buffer,                \* DeserializationBuffer.buffer, 15 bytes
    buffer_end_bit,        \* DeserializationBuffer.buffer_end_bit
    result,                \* what the last deserialize call returned
    into,                  \* what into_structure returned, "none" before it is called
    hdr,                   \* frame identifier side: the header or the arguments at hand
    canid,                 \* frame identifier side: the identifier at hand
    parsed,                \* frame identifier side: what from_id returned
    item,                  \* the primitive, DynamicArrayLength or dynamic array a Deserialize impl is called on
    next_start_bit,        \* the start_bit the next Deserialize call is given
    ret,                   \* what the last pop_bits or Deserialize call returned
    taken,                 \* how many bits pop_bits has been asked for so far
    counted                \* the sum of the bit counts the Deserialize calls returned so far

dvars == <<T, orig, wire, sent, calls, structure, current_field_index,
           current_type_index, buffer, buffer_end_bit, result, into>>
idvars == <<hdr, canid, parsed>>
avars == <<item, next_start_bit, ret, taken, counted>>
vars == <<T, orig, wire, sent, calls, structure, current_field_index,
          current_type_index, buffer, buffer_end_bit, result, into,
          hdr, canid, parsed, item, next_start_bit, ret, taken, counted>>

-----------------------------------------------------------------------------
(* Bounds of the model *)

\* the longest run of excess bytes appended to a packed structure
MaxExtra == 1
\* the most deserialize calls made on one deserializer
MaxCalls == 2

-----------------------------------------------------------------------------
(* Bits, bytes and the bit_field operations *)

Min(a, b) == IF a < b THEN a ELSE b

Zeros(n) == [k \in 1..n |-> 0]

Ones(n) == [k \in 1..n |-> 1]

\* alternating bits, the lowest one set: 0x55.. cut to n bits
Alt(n) == [k \in 1..n |-> k % 2]

RECURSIVE NatBits(_, _)
\* the w low bits of the number v
NatBits(v, w) == IF w = 0 THEN <<>> ELSE <<v % 2>> \o NatBits(v \div 2, w - 1)

RECURSIVE BitsValue(_)
\* the unsigned number a short run of bits stands for
BitsValue(bits) ==
    IF bits = <<>> THEN 0 ELSE Head(bits) + 2 * BitsValue(Tail(bits))

\* a run of bits as little endian bytes, the last byte zero above the run
BitsBytes(bits) ==
    [b \in 1..((Len(bits) + 7) \div 8) |->
        BitsValue(SubSeq(bits, 8 * b - 7, Min(8 * b, Len(bits))))]

\* the w low bits of a little endian byte array
BytesBits(bytes, w) ==
    [k \in 1..w |-> (bytes[((k - 1) \div 8) + 1] \div (2 ^ ((k - 1) % 8))) % 2]

\* get_bits, but a range that runs into the next byte gets only the bits of its first byte
get_bits_first_byte(arr, lo, hi) ==
    LET i == lo \div 8
        off == lo % 8
        n == hi - lo
    IN (arr[i + 1] \div (2 ^ off)) % (2 ^ n)

\* BitArray::get_bits on [u8] (and BitField::get_bits on a word held as its little
\* endian bytes): bits lo..hi, at most 8 of them, right aligned
get_bits(arr, lo, hi) ==
    LET i == lo \div 8
        off == lo % 8
        n == hi - lo
        low == arr[i + 1] \div (2 ^ off)
        high == IF off + n > 8 THEN arr[i + 2] * (2 ^ (8 - off)) ELSE 0
    IN (low + high) % (2 ^ n)

\* BitArray::set_bits on [u8] (and BitField::set_bits on a word held as its little
\* endian bytes): bits lo..hi, at most 8 of them, take value, which fits in hi - lo bits
set_bits(arr, lo, hi, value) ==
    LET i == lo \div 8
        off == lo % 8
        n == hi - lo
        top == Min(8, off + n)
        first == (arr[i + 1] % (2 ^ off))
                 + ((value * (2 ^ off)) % (2 ^ top))
                 + (arr[i + 1] \div (2 ^ top)) * (2 ^ top)
        m == off + n - 8
        second == ((value \div (2 ^ (8 - off))) % (2 ^ m))
                  + (arr[i + 2] \div (2 ^ m)) * (2 ^ m)
    IN IF off + n > 8
       THEN [arr EXCEPT ![i + 1] = first, ![i + 2] = second]
       ELSE [arr EXCEPT ![i + 1] = first]

-----------------------------------------------------------------------------
(* The flattened field view of a structure *)

\* Structure::flattened_fields_len
flattened_fields_len(t) == Len(t)

\* field(i).length(): the number of primitives of flattened field i (0 based)
field_length_of(t, i) == Len(t[i + 1])

\* field(i).bit_array(j).bit_length(): the width of primitive j of field i (0 based)
bit_length_of(t, i, j) == t[i + 1][j + 1]

RECURSIVE SlotsFrom(_, _, _)
\* the primitives from primitive j of field i on (1 based), in declaration order
SlotsFrom(t, i, j) ==
    IF i > Len(t) THEN <<>>
    ELSE IF j > Len(t[i]) THEN SlotsFrom(t, i + 1, 1)
    ELSE <<(<<i, j>>)>> \o SlotsFrom(t, i, j + 1)

\* every primitive of the structure in declaration order, as (field, primitive) pairs
Slots(t) == SlotsFrom(t, 1, 1)

\* the total bit length of the flattened structure
TotalBits(t) ==
    LET s == Slots(t)
        RECURSIVE Sum(_)
        Sum(n) == IF n = 0 THEN 0 ELSE t[s[n][1]][s[n][2]] + Sum(n - 1)
    IN Sum(Len(s))

\* mem::zeroed(): every primitive of the structure is zero
zeroed(t) == [i \in 1..Len(t) |-> [j \in 1..Len(t[i]) |-> BitsBytes(Zeros(t[i][j]))]]

-----------------------------------------------------------------------------
(* The packed little endian encoding the sender produces *)

\* the bit stream of a value: its primitives in declaration order, low bit first, no padding between them
PackedBits(t, v) ==
    LET s == Slots(t)
        RECURSIVE Cat(_)
        Cat(n) == IF n = 0 THEN <<>>
                  ELSE Cat(n - 1) \o BytesBits(v[s[n][1]][s[n][2]], t[s[n][1]][s[n][2]])
    IN Cat(Len(s))

\* the bytes of a value: the bit stream cut into bytes, the last byte padded with zero bits
Encode(t, v) ==
    LET bits == PackedBits(t, v)
        n == (Len(bits) + 7) \div 8
        padded == bits \o Zeros(8 * n - Len(bits))
    IN BitsBytes(padded)

-----------------------------------------------------------------------------
(* DeserializationBuffer *)

BufferBytes == 15
BufferBits == 8 * BufferBytes

\* DeserializationBuffer::new
buffer_new == [buffer |-> Zeros(BufferBytes), buffer_end_bit |-> 0]

RECURSIVE pop_copy(_, _, _, _)
\* the first loop of pop_bits: copy bit_length bits from the head of the buffer into a u64
pop_copy(buf, bits, current_bit, bit_length) ==
    IF current_bit < bit_length
    THEN IF current_bit + 8 < bit_length
         THEN pop_copy(buf,
                       set_bits(bits, current_bit, current_bit + 8,
                                get_bits(buf, current_bit, current_bit + 8)),
                       current_bit + 8, bit_length)
         ELSE pop_copy(buf,
                       set_bits(bits, current_bit, bit_length,
                                get_bits(buf, current_bit, bit_length)),
                       bit_length, bit_length)
    ELSE bits

\* pop_bits without its second loop: the remaining bits are not moved down
pop_shift_none(buf, current_bit, bit_length, end_bit) == buf

RECURSIVE pop_shift(_, _, _, _)
\* the second loop of pop_bits: move the remaining bits down to bit 0
pop_shift(buf, current_bit, bit_length, end_bit) ==
    IF current_bit < end_bit - bit_length
    THEN IF current_bit + 8 < end_bit - bit_length
         THEN pop_shift(set_bits(buf, current_bit, current_bit + 8,
                                 get_bits(buf, current_bit + bit_length,
                                          current_bit + bit_length + 8)),
                        current_bit + 8, bit_length, end_bit)
         ELSE pop_shift(set_bits(buf, current_bit, end_bit - bit_length,
                                 get_bits(buf, current_bit + bit_length, end_bit)),
                        end_bit - bit_length, bit_length, end_bit)
    ELSE buf

\* the two assertions at the head of pop_bits
pop_bits_asserts(b, bit_length) == bit_length <= 64 /\ bit_length <= b.buffer_end_bit

\* DeserializationBuffer::pop_bits: the u64 popped, as its 8 little endian bytes, and the buffer left
pop_bits(b, bit_length) ==
    [bits |-> pop_copy(b.buffer, Zeros(8), 0, bit_length),
     buffer |-> pop_shift(b.buffer, 0, bit_length, b.buffer_end_bit),
     buffer_end_bit |-> b.buffer_end_bit - bit_length]

RECURSIVE push(_, _)
\* DeserializationBuffer::push: append the bytes of tail; set_bits panics past the backing array
push(b, tail) ==
    IF tail = <<>> THEN [buffer |-> b.buffer, buffer_end_bit |-> b.buffer_end_bit, panic |-> FALSE]
    ELSE IF b.buffer_end_bit + 8 > BufferBits
    THEN [buffer |-> b.buffer, buffer_end_bit |-> b.buffer_end_bit, panic |-> TRUE]
    ELSE push([buffer |-> set_bits(b.buffer, b.buffer_end_bit, b.buffer_end_bit + 8, Head(tail)),
               buffer_end_bit |-> b.buffer_end_bit + 8],
              Tail(tail))

-----------------------------------------------------------------------------
(* Deserializer *)

\* Deserializer::new: a zeroed structure, both indices zero, an empty buffer
new(t) ==
    [structure |-> zeroed(t),
     current_field_index |-> 0,
     current_type_index |-> 0,
     buffer |-> buffer_new.buffer,
     buffer_end_bit |-> buffer_new.buffer_end_bit]

\* the then-branch of the innermost test: pop one primitive into its slot and step to the next primitive
pop_field(t, d) ==
    LET field_length == bit_length_of(t, d.current_field_index, d.current_type_index)
        p == pop_bits(d, field_length)
    IN [d EXCEPT !.structure[d.current_field_index + 1][d.current_type_index + 1] =
                     SubSeq(p.bits, 1, (field_length + 7) \div 8),
                 !.buffer = p.buffer,
                 !.buffer_end_bit = p.buffer_end_bit,
                 !.current_type_index = @ + 1]

\* next_field, but it steps over the field that follows
next_field_skip(d) ==
    [d EXCEPT !.current_type_index = 0, !.current_field_index = @ + 2]

\* the else-branch of the test on current_type_index: step to the next field
next_field(d) ==
    [d EXCEPT !.current_type_index = 0, !.current_field_index = @ + 1]

\* what deserialize returns once the structure is complete
exhausted(d) == IF d.buffer_end_bit >= 8 THEN "StructureExhausted" ELSE "Ok"

RECURSIVE field_loop_drop(_, _)
\* the loop of deserialize, but the bits left in the buffer are dropped when it pauses
field_loop_drop(t, d) ==
    IF d.current_field_index < flattened_fields_len(t)
    THEN IF d.current_type_index < field_length_of(t, d.current_field_index)
         THEN IF bit_length_of(t, d.current_field_index, d.current_type_index) <= d.buffer_end_bit
              THEN field_loop_drop(t, pop_field(t, d))
              ELSE [d |-> [d EXCEPT !.buffer_end_bit = 0], exit |-> "break"]
         ELSE field_loop_drop(t, next_field(d))
    ELSE [d |-> d, exit |-> exhausted(d)]

RECURSIVE field_loop_strict(_, _)
\* the loop of deserialize, but a primitive is popped only when the buffer holds more than its width
field_loop_strict(t, d) ==
    IF d.current_field_index < flattened_fields_len(t)
    THEN IF d.current_type_index < field_length_of(t, d.current_field_index)
         THEN IF bit_length_of(t, d.current_field_index, d.current_type_index) < d.buffer_end_bit
              THEN field_loop_strict(t, pop_field(t, d))
              ELSE [d |-> d, exit |-> "break"]
         ELSE field_loop_strict(t, next_field(d))
    ELSE [d |-> d, exit |-> exhausted(d)]

RECURSIVE field_loop_any_bits(_, _)
\* the loop of deserialize, but a primitive is popped as soon as the buffer holds any bit
field_loop_any_bits(t, d) ==
    IF d.current_field_index < flattened_fields_len(t)
    THEN IF d.current_type_index < field_length_of(t, d.current_field_index)
         THEN IF 0 < d.buffer_end_bit
              THEN IF pop_bits_asserts(d, bit_length_of(t, d.current_field_index,
                                                        d.current_type_index))
                   THEN field_loop_any_bits(t, pop_field(t, d))
                   ELSE [d |-> d, exit |-> "AssertionFailed"]
              ELSE [d |-> d, exit |-> "break"]
         ELSE field_loop_any_bits(t, next_field(d))
    ELSE [d |-> d, exit |-> exhausted(d)]

RECURSIVE field_loop(_, _)
\* the `loop` of deserialize: the deserializer it leaves and how it left
\* ("break" to go on with the next chunk, the value returned from inside the
\* loop, or "AssertionFailed" when pop_bits is called against its assertions)
field_loop(t, d) ==
    IF d.current_field_index < flattened_fields_len(t)
    THEN IF d.current_type_index < field_length_of(t, d.current_field_index)
         THEN IF bit_length_of(t, d.current_field_index, d.current_type_index) <= d.buffer_end_bit
              THEN IF pop_bits_asserts(d, bit_length_of(t, d.current_field_index,
                                                        d.current_type_index))
                   THEN field_loop(t, pop_field(t, d))
                   ELSE [d |-> d, exit |-> "AssertionFailed"]
              ELSE [d |-> d, exit |-> "break"]
         ELSE field_loop(t, next_field(d))
    ELSE [d |-> d, exit |-> exhausted(d)]

\* input.chunks(8): the first chunk of a non-empty input
first_chunk(input) == SubSeq(input, 1, Min(8, Len(input)))

\* input.chunks(8): what follows the first chunk
rest_chunks(input) == SubSeq(input, Min(8, Len(input)) + 1, Len(input))

RECURSIVE deserialize_flush(_, _, _)
\* deserialize, but the bits left in the buffer are dropped when the input runs out
deserialize_flush(t, d, input) ==
    IF input = <<>> THEN [d |-> [d EXCEPT !.buffer_end_bit = 0], result |-> "Ok"]
    ELSE LET b == push(d, first_chunk(input))
             pushed == [d EXCEPT !.buffer = b.buffer, !.buffer_end_bit = b.buffer_end_bit]
             l == field_loop(t, pushed)
         IN IF b.panic THEN [d |-> pushed, result |-> "Panic"]
            ELSE IF l.exit = "break" THEN deserialize_flush(t, l.d, rest_chunks(input))
            ELSE [d |-> l.d, result |-> l.exit]

RECURSIVE deserialize(_, _, _)
\* Deserializer::deserialize: the deserializer after the call and the result returned
deserialize(t, d, input) ==
    IF input = <<>> THEN [d |-> d, result |-> "Ok"]
    ELSE LET b == push(d, first_chunk(input))
             pushed == [d EXCEPT !.buffer = b.buffer, !.buffer_end_bit = b.buffer_end_bit]
             l == field_loop(t, pushed)
         IN IF b.panic THEN [d |-> pushed, result |-> "Panic"]
            ELSE IF l.exit = "break" THEN deserialize(t, l.d, rest_chunks(input))
            ELSE [d |-> l.d, result |-> l.exit]

\* Deserializer::into_structure
into_structure(t, d) ==
    LET number_of_fields == flattened_fields_len(t)
        finished_parsing == number_of_fields = d.current_field_index
    IN IF finished_parsing THEN "Ok" ELSE "NotFinished"

-----------------------------------------------------------------------------
(* The Deserialize impls of primitives, DynamicArrayLength and dynamic arrays *)

\* DeserializationResult::Finished(bits)
Finished(bits) == [op |-> "deserialize", kind |-> "Finished", bits |-> bits]

\* DeserializationResult::BufferInsufficient(bits)
BufferInsufficient(bits) == [op |-> "deserialize", kind |-> "BufferInsufficient", bits |-> bits]

\* the call did not return: pop_bits was called against its assertions
AssertionFailed == [op |-> "deserialize", kind |-> "AssertionFailed", bits |-> 0]

\* the call did not return: an index out of the array's storage
IndexPanic == [op |-> "deserialize", kind |-> "Panic", bits |-> 0]

\* set_bits(lo..w, word) on a primitive of width w held as its little endian
\* bytes: the bits below lo stay, bits lo..w take the low w - lo bits of the word
primitive_set_bits(slot, w, lo, word) ==
    BitsBytes(SubSeq(BytesBits(slot, w), 1, lo) \o BytesBits(word, w - lo))

\* the primitive impl, but when the buffer holds too few bits it takes the
\* bits at hand out of the buffer and returns their number
primitive_deserialize_partial(w, slot, s, b) ==
    IF b.buffer_end_bit + s < w
    THEN LET p == pop_bits(b, b.buffer_end_bit)
         IN [slot |-> slot,
             b |-> [buffer |-> p.buffer, buffer_end_bit |-> p.buffer_end_bit],
             ret |-> BufferInsufficient(b.buffer_end_bit)]
    ELSE IF ~pop_bits_asserts(b, w - s)
    THEN [slot |-> slot, b |-> b, ret |-> AssertionFailed]
    ELSE LET p == pop_bits(b, w - s)
         IN [slot |-> primitive_set_bits(slot, w, s, p.bits),
             b |-> [buffer |-> p.buffer, buffer_end_bit |-> p.buffer_end_bit],
             ret |-> Finished(w)]

\* impl Deserialize for a primitive type of bit_length() w, called with start_bit s < w
primitive_deserialize(w, slot, s, b) ==
    IF b.buffer_end_bit + s < w
    THEN [slot |-> slot, b |-> b, ret |-> BufferInsufficient(0)]
    ELSE IF ~pop_bits_asserts(b, w - s)
    THEN [slot |-> slot, b |-> b, ret |-> AssertionFailed]
    ELSE LET p == pop_bits(b, w - s)
         IN [slot |-> primitive_set_bits(slot, w, s, p.bits),
             b |-> [buffer |-> p.buffer, buffer_end_bit |-> p.buffer_end_bit],
             ret |-> Finished(w)]

\* usize::set_bits(lo..hi, value): bits lo..hi of v take value, the other bits stay
usize_set_bits(v, lo, hi, value) ==
    (v % (2 ^ lo)) + value * (2 ^ lo) + (v \div (2 ^ hi)) * (2 ^ hi)

\* impl Deserialize for DynamicArrayLength, called with start_bit s < bit_length
length_deserialize(len, s, b) ==
    IF b.buffer_end_bit + s < len.bit_length
    THEN [len |-> len, b |-> b, ret |-> BufferInsufficient(0)]
    ELSE IF ~pop_bits_asserts(b, len.bit_length - s)
    THEN [len |-> len, b |-> b, ret |-> AssertionFailed]
    ELSE LET p == pop_bits(b, len.bit_length - s)
             popped == BitsValue(BytesBits(p.bits, len.bit_length - s))
         IN [len |-> [len EXCEPT !.current_length =
                                     usize_set_bits(@, s, len.bit_length, popped)],
             b |-> [buffer |-> p.buffer, buffer_end_bit |-> p.buffer_end_bit],
             ret |-> Finished(len.bit_length)]

RECURSIVE CeilLog2(_)
\* the least k with 2^k >= n
CeilLog2(n) == IF n <= 1 THEN 0 ELSE 1 + CeilLog2((n + 1) \div 2)

\* Self::length_bit_length() of a dynamic array of the given capacity
length_bit_length(capacity) == CeilLog2(capacity + 1)

\* a zeroed dynamic array of capacity elements of width element_bit_length; tail
\* tells whether it is the last field of the structure on the wire
array_zeroed(capacity, element_bit_length, tail) ==
    [kind |-> "array",
     capacity |-> capacity,
     element_bit_length |-> element_bit_length,
     current_length |-> 0,
     data |-> [i \in 1..capacity |-> BitsBytes(Zeros(element_bit_length))],
     tail |-> tail]

\* self.length(): the length field of the array
length(a) == [bit_length |-> length_bit_length(a.capacity), current_length |-> a.current_length]

\* the array after self.length().deserialize(..) left len in its length field
with_length(a, len) == [a EXCEPT !.current_length = len.current_length]

-----------------------------------------------------------------------------
RECURSIVE elements_from(_, _, _, _)
\* the for loop of the array impl from element i on (0 based): a the array, b
\* the buffer, bits_deserialized the count so far
elements_from(a, i, b, bits_deserialized) ==
    IF i >= a.current_length
    THEN [a |-> a, b |-> b, ret |-> Finished(bits_deserialized)]
    ELSE IF i >= a.capacity
    THEN [a |-> a, b |-> b, ret |-> IndexPanic]
    ELSE LET r == primitive_deserialize(a.element_bit_length, a.data[i + 1], 0, b)
         IN IF r.ret.kind = "Finished"
            THEN elements_from([a EXCEPT !.data[i + 1] = r.slot], i + 1, r.b,
                               bits_deserialized + r.ret.bits)
            ELSE [a |-> a, b |-> r.b,
                  ret |-> IF r.ret.kind = "BufferInsufficient"
                          THEN BufferInsufficient(bits_deserialized + r.ret.bits)
                          ELSE r.ret]

\* the array impl from the computation of start_element on
odd_bits_and_elements(a, start_bit, b, bits_deserialized) ==
    LET offset == start_bit + bits_deserialized - length_bit_length(a.capacity)
        start_element == offset \div a.element_bit_length
        start_element_bit == offset % a.element_bit_length
    IN IF start_element_bit # 0
       THEN IF start_element >= a.capacity
            THEN [a |-> a, b |-> b, ret |-> IndexPanic]
            ELSE LET r == primitive_deserialize(a.element_bit_length, a.data[start_element + 1],
                                                start_element_bit, b)
                 IN IF r.ret.kind = "Finished"
                    THEN elements_from([a EXCEPT !.data[start_element + 1] = r.slot],
                                       start_element + 1, r.b,
                                       bits_deserialized + r.ret.bits)
                    ELSE [a |-> a, b |-> r.b,
                          ret |-> IF r.ret.kind = "BufferInsufficient"
                                  THEN BufferInsufficient(bits_deserialized + r.ret.bits)
                                  ELSE r.ret]
       ELSE elements_from(a, start_element, b, bits_deserialized)

\* the array impl, but the element the cursor points at is computed from the
\* cursor without taking off the bits of the length field
array_deserialize_no_offset(a, start_bit, b) ==
    IF start_bit < length(a).bit_length
    THEN LET r == length_deserialize(length(a), start_bit, b)
         IN IF r.ret.kind = "Finished"
            THEN odd_bits_and_elements(with_length(a, r.len), start_bit, r.b, r.ret.bits)
            ELSE [a |-> a, b |-> r.b,
                  ret |-> IF r.ret.kind = "BufferInsufficient"
                          THEN BufferInsufficient(0 + r.ret.bits)
                          ELSE r.ret]
    ELSE odd_bits_and_elements(a, start_bit + length_bit_length(a.capacity), b, 0)

\* impl Deserialize for a dynamic array: the array and the buffer after the
\* call and what it returned
array_deserialize(a, start_bit, b) ==
    IF start_bit < length(a).bit_length
    THEN LET r == length_deserialize(length(a), start_bit, b)
         IN IF r.ret.kind = "Finished"
            THEN odd_bits_and_elements(with_length(a, r.len), start_bit, r.b, r.ret.bits)
            ELSE [a |-> a, b |-> r.b,
                  ret |-> IF r.ret.kind = "BufferInsufficient"
                          THEN BufferInsufficient(0 + r.ret.bits)
                          ELSE r.ret]
    ELSE odd_bits_and_elements(a, start_bit, b, 0)

-----------------------------------------------------------------------------
(* bit_field on a u32: a word is its value and whether an assertion of bit_field failed *)

\* let mut id = 0
u32_zero == [v |-> 0, panic |-> FALSE]

\* BitField::get_bits on a u32: bits lo..hi, right aligned
u32_get_bits(v, lo, hi) == (v \div (2 ^ lo)) % (2 ^ (hi - lo))

\* BitField::get_bit on a u32
u32_get_bit(v, i) == (v \div (2 ^ i)) % 2 = 1

\* BitField::set_bits on a u32: panics ("value does not fit into bit range") unless value < 2^(hi-lo)
u32_set_bits(w, lo, hi, value) ==
    IF w.panic \/ value >= 2 ^ (hi - lo)
    THEN [v |-> 0, panic |-> TRUE]
    ELSE [v |-> w.v - u32_get_bits(w.v, lo, hi) * (2 ^ lo) + value * (2 ^ lo),
          panic |-> FALSE]

\* BitField::set_bit on a u32
u32_set_bit(w, i, b) == u32_set_bits(w, i, i + 1, IF b THEN 1 ELSE 0)

-----------------------------------------------------------------------------
(* Frame: composing the transfer frame identifier (lib.rs) *)

\* from_message with the type id written one bit too low
from_message_shifted(type_id, priority, source_node) ==
    LET id1 == u32_set_bits(u32_zero, 0, 7, source_node)
        id2 == u32_set_bits(id1, 7, 23, type_id)
    IN u32_set_bits(id2, 24, 29, priority)

\* Frame::from_message, the identifier of the frame
from_message(type_id, priority, source_node) ==
    LET id1 == u32_set_bits(u32_zero, 0, 7, source_node)
        id2 == u32_set_bit(id1, 7, FALSE)
        id3 == u32_set_bits(id2, 8, 24, type_id)
    IN u32_set_bits(id3, 24, 29, priority)

\* from_anonymous_message, but bit 7 is set
from_anonymous_message_bit7(type_id, priority, discriminator) ==
    LET id1 == u32_set_bits(u32_zero, 0, 7, 0)
        id2 == u32_set_bit(id1, 7, TRUE)
        id3 == u32_set_bits(id2, 8, 10, type_id)
        id4 == u32_set_bits(id3, 10, 24, discriminator)
    IN u32_set_bits(id4, 24, 29, priority)

\* Frame::from_anonymous_message, the identifier of the frame
from_anonymous_message(type_id, priority, discriminator) ==
    LET id1 == u32_set_bits(u32_zero, 0, 7, 0)
        id2 == u32_set_bit(id1, 7, FALSE)
        id3 == u32_set_bits(id2, 8, 10, type_id)
        id4 == u32_set_bits(id3, 10, 24, discriminator)
    IN u32_set_bits(id4, 24, 29, priority)

\* from_request, but bit 15 is left clear
from_request_clear15(type_id, priority, source_node, destination_node) ==
    LET id1 == u32_set_bits(u32_zero, 0, 7, source_node)
        id2 == u32_set_bit(id1, 7, FALSE)
        id3 == u32_set_bits(id2, 8, 15, destination_node)
        id4 == u32_set_bit(id3, 15, FALSE)
        id5 == u32_set_bits(id4, 16, 24, type_id)
    IN u32_set_bits(id5, 24, 29, priority)

\* from_request with the destination written to the 6 bit field 8..14
from_request_dest6(type_id, priority, source_node, destination_node) ==
    LET id1 == u32_set_bits(u32_zero, 0, 7, source_node)
        id2 == u32_set_bit(id1, 7, FALSE)
        id3 == u32_set_bits(id2, 8, 14, destination_node)
        id4 == u32_set_bit(id3, 15, TRUE)
        id5 == u32_set_bits(id4, 16, 24, type_id)
    IN u32_set_bits(id5, 24, 29, priority)

\* Frame::from_request, the identifier of the frame
from_request(type_id, priority, source_node, destination_node) ==
    LET id1 == u32_set_bits(u32_zero, 0, 7, source_node)
        id2 == u32_set_bit(id1, 7, FALSE)
        id3 == u32_set_bits(id2, 8, 15, destination_node)
        id4 == u32_set_bit(id3, 15, TRUE)
        id5 == u32_set_bits(id4, 16, 24, type_id)
    IN u32_set_bits(id5, 24, 29, priority)

\* from_response, but bit 15 is cleared as for a frame that is not a request
from_response_clear15(type_id, priority, source_node, destination_node) ==
    LET id1 == u32_set_bits(u32_zero, 0, 7, source_node)
        id2 == u32_set_bit(id1, 7, FALSE)
        id3 == u32_set_bits(id2, 8, 15, destination_node)
        id4 == u32_set_bit(id3, 15, FALSE)
        id5 == u32_set_bits(id4, 16, 24, type_id)
    IN u32_set_bits(id5, 24, 29, priority)

\* Frame::from_response, the identifier of the frame
from_response(type_id, priority, source_node, destination_node) ==
    LET id1 == u32_set_bits(u32_zero, 0, 7, source_node)
        id2 == u32_set_bit(id1, 7, FALSE)
        id3 == u32_set_bits(id2, 8, 15, destination_node)
        id4 == u32_set_bit(id3, 15, TRUE)
        id5 == u32_set_bits(id4, 16, 24, type_id)
    IN u32_set_bits(id5, 24, 29, priority)

-----------------------------------------------------------------------------
(* The frame headers the macros of header_macros.rs generate; TYPE_ID is the *)
(* constant the macro is given                                               *)

\* message_frame_header!: MessageFrameHeader::new
message_new(priority, source_node) ==
    [priority |-> priority, source_node |-> source_node]

\* message_frame_header!: Header::id
message_id(TYPE_ID, h) ==
    LET id1 == u32_set_bits(u32_zero, 0, 7, h.source_node)
        id2 == u32_set_bit(id1, 7, FALSE)
        id3 == u32_set_bits(id2, 8, 24, TYPE_ID)
    IN u32_set_bits(id3, 24, 29, h.priority)

\* from_id of a message header reading only 4 bits of priority
message_from_id_p4(TYPE_ID, id) ==
    IF u32_get_bits(id, 8, 24) # TYPE_ID
    THEN [ok |-> FALSE]
    ELSE [ok |-> TRUE,
          h |-> [priority |-> u32_get_bits(id, 24, 28),
                 source_node |-> u32_get_bits(id, 0, 7)]]

\* message_frame_header!: Header::from_id
message_from_id(TYPE_ID, id) ==
    IF u32_get_bits(id, 8, 24) # TYPE_ID
    THEN [ok |-> FALSE]
    ELSE [ok |-> TRUE,
          h |-> [priority |-> u32_get_bits(id, 24, 29),
                 source_node |-> u32_get_bits(id, 0, 7)]]

\* anonymous_frame_header!: AnonymousFrameHeader::new
anonymous_new(priority, discriminator) ==
    [priority |-> priority, discriminator |-> discriminator]

\* anonymous_frame_header!: Header::id
anonymous_id(TYPE_ID, h) ==
    LET id1 == u32_set_bits(u32_zero, 0, 7, 0)
        id2 == u32_set_bit(id1, 7, FALSE)
        id3 == u32_set_bits(id2, 8, 10, TYPE_ID)
        id4 == u32_set_bits(id3, 10, 24, h.discriminator)
    IN u32_set_bits(id4, 24, 29, h.priority)

\* anonymous_frame_header!: Header::from_id
anonymous_from_id(TYPE_ID, id) ==
    IF u32_get_bits(id, 8, 24) # TYPE_ID
    THEN [ok |-> FALSE]
    ELSE [ok |-> TRUE,
          h |-> [priority |-> u32_get_bits(id, 24, 29),
                 discriminator |-> u32_get_bits(id, 10, 24)]]

\* service_frame_header!: ServiceFrameHeader::new
service_new(priority, request_not_response, source_node, destination_node) ==
    [priority |-> priority,
     request_not_response |-> request_not_response,
     destination_node |-> destination_node,
     source_node |-> source_node]

\* service_frame_header!: Header::id
service_id(TYPE_ID, h) ==
    LET id1 == u32_set_bits(u32_zero, 0, 7, h.source_node)
        id2 == u32_set_bit(id1, 7, FALSE)
        id3 == u32_set_bits(id2, 8, 24, TYPE_ID)
    IN u32_set_bits(id3, 24, 29, h.priority)

\* service_frame_header!: Header::from_id
service_from_id(TYPE_ID, id) ==
    IF u32_get_bits(id, 8, 24) # TYPE_ID
    THEN [ok |-> FALSE]
    ELSE [ok |-> TRUE,
          h |-> [priority |-> u32_get_bits(id, 24, 29),
                 request_not_response |-> u32_get_bit(id, 15),
                 destination_node |-> u32_get_bits(id, 8, 14),
                 source_node |-> u32_get_bits(id, 0, 7)]]

-----------------------------------------------------------------------------
(* The structures and values the model runs the deserializer on *)

\* Message of uavcan_parse_test_byte_aligned: Uint8, Uint32, Uint16, Uint8
ByteAligned == << <<8>>, <<32>>, <<16>>, <<8>> >>

\* NodeStatus of uavcan_parse_test_misaligned: Uint32, Uint2, Uint3, Uint3, Uint16
Misaligned == << <<32>>, <<2>>, <<3>>, <<3>>, <<16>> >>

\* a structure of 60 bits, half a byte short of a full chunk: Uint32, Uint16, Uint8, Uint4
HalfByteShort == << <<32>>, <<16>>, <<8>>, <<4>> >>

\* a structure longer than one chunk of 8 bytes: Uint32, Uint32, Uint16
TwoChunks == << <<32>>, <<32>>, <<16>> >>

\* a structure with a field of several primitives: Uint3, (Uint5, Uint2), Uint7
Grouped == << <<3>>, <<5, 2>>, <<7>> >>

Layouts == {ByteAligned, Misaligned, HalfByteShort, TwoChunks, Grouped}

\* the structure value whose primitives are all cut from one pattern of bits
Uniform(t, Pattern(_)) ==
    [i \in 1..Len(t) |-> [j \in 1..Len(t[i]) |-> BitsBytes(Pattern(t[i][j]))]]

\* the structure value with every bit of primitive n set and every other primitive zero
OneHot(t, n) ==
    LET s == Slots(t)
    IN [i \in 1..Len(t) |-> [j \in 1..Len(t[i]) |->
           BitsBytes(IF <<i, j>> = s[n] THEN Ones(t[i][j]) ELSE Zeros(t[i][j]))]]

\* the value of uavcan_parse_test_byte_aligned: 17, 19, 21, 23
ByteAlignedTest ==
    << <<BitsBytes(NatBits(17, 8))>>, <<BitsBytes(NatBits(19, 32))>>,
       <<BitsBytes(NatBits(21, 16))>>, <<BitsBytes(NatBits(23, 8))>> >>

\* the value of uavcan_parse_test_misaligned: 1, 2, 3, 4, 5
MisalignedTest ==
    << <<BitsBytes(NatBits(1, 32))>>, <<BitsBytes(NatBits(2, 2))>>, <<BitsBytes(NatBits(3, 3))>>,
       <<BitsBytes(NatBits(4, 3))>>, <<BitsBytes(NatBits(5, 16))>> >>

\* the values of structure t the model packs on the wire
Values(t) ==
    {Uniform(t, Zeros), Uniform(t, Ones), Uniform(t, Alt)}
    \cup {OneHot(t, n) : n \in 1..Len(Slots(t))}
    \cup (IF t = ByteAligned THEN {ByteAlignedTest} ELSE {})
    \cup (IF t = Misaligned THEN {MisalignedTest} ELSE {})

\* the bytes that follow a packed structure in the model
ExtraBytes == {0, 255}

RECURSIVE SeqsUpTo(_, _)
\* the sequences over S of length at most n
SeqsUpTo(S, n) ==
    IF n = 0 THEN {<<>>}
    ELSE LET shorter == SeqsUpTo(S, n - 1)
         IN shorter \cup {Append(q, x) : q \in {r \in shorter : Len(r) = n - 1}, x \in S}

Extras == SeqsUpTo(ExtraBytes, MaxExtra)

-----------------------------------------------------------------------------
(* The deserializer as a state machine *)

\* the deserializer the variables hold
Self ==
    [structure |-> structure,
     current_field_index |-> current_field_index,
     current_type_index |-> current_type_index,
     buffer |-> buffer,
     buffer_end_bit |-> buffer_end_bit]

IdIdle == hdr = [op |-> "idle"] /\ canid = [v |-> 0, panic |-> FALSE] /\ parsed = [kind |-> "none"]

\* no pop_bits or Deserialize call is modelled on its own
ArrIdle ==
    /\ item = [kind |-> "none"] /\ next_start_bit = 0 /\ ret = [op |-> "none"]
    /\ taken = 0 /\ counted = 0

Init ==
    /\ T \in Layouts
    /\ orig \in Values(T)
    /\ \E extra \in Extras : wire = Encode(T, orig) \o extra
    /\ sent = 0
    /\ calls = <<>>
    /\ structure = new(T).structure
    /\ current_field_index = new(T).current_field_index
    /\ current_type_index = new(T).current_type_index
    /\ buffer = new(T).buffer
    /\ buffer_end_bit = new(T).buffer_end_bit
    /\ result = "none"
    /\ into = "none"
    /\ IdIdle
    /\ ArrIdle

\* the deserializer has neither been consumed by an error nor by into_structure
Alive == result \in {"none", "Ok"} /\ into = "none"

\* deserializer = deserializer.deserialize(input), input the next n bytes of the wire
Deserialize ==
    /\ Alive
    /\ Len(calls) < MaxCalls
    /\ \E n \in 0..(Len(wire) - sent) :
           LET r == deserialize(T, Self, SubSeq(wire, sent + 1, sent + n))
           IN /\ structure' = r.d.structure
              /\ current_field_index' = r.d.current_field_index
              /\ current_type_index' = r.d.current_type_index
              /\ buffer' = r.d.buffer
              /\ buffer_end_bit' = r.d.buffer_end_bit
              /\ result' = r.result
              /\ sent' = sent + n
              /\ calls' = Append(calls, n)
    /\ UNCHANGED <<T, orig, wire, into, hdr, canid, parsed, avars>>

\* deserializer.into_structure()
IntoStructure ==
    /\ Alive
    /\ into' = into_structure(T, Self)
    /\ UNCHANGED <<T, orig, wire, sent, calls, structure, current_field_index,
                   current_type_index, buffer, buffer_end_bit, result, hdr, canid, parsed,
                   avars>>

-----------------------------------------------------------------------------
(* The frame identifier operations as a state machine *)

\* priority: u8 written to the 5 bit field 24..29
Priorities == {0, 1, 15, 16, 31}

\* node identifiers written to the 7 bit fields
NodeIDs == {0, 1, 2, 42, 64, 127}

\* discriminator: u16 written to the 14 bit field 10..24
Discriminators == {0, 1, 10922, 16383}

\* Message::TYPE_ID: Option<u16>, the type ids a message type declares
MessageTypeIDs == {0, 1, 3, 4, 341, 16383, 65535}

\* Request::TYPE_ID, Response::TYPE_ID and the service headers' TYPE_ID: u8
ServiceTypeIDs == {0, 1, 2, 130, 255}

\* the anonymous headers' TYPE_ID, the values of the 2 bit field 8..10
AnonymousTypeIDs == 0..3

\* identifiers of frames received from the bus: any 29 bit value, here by its bytes
ReceivedIDs ==
    {p * (2 ^ 24) + b2 * (2 ^ 16) + b1 * (2 ^ 8) + b0 :
        p \in {0, 16, 31}, b2 \in {0, 1, 170, 255}, b1 \in {0, 1, 2, 3, 130, 169, 255},
        b0 \in {0, 42, 127, 255}}

NotParsed == [kind |-> "none"]

DeserializerIdle ==
    /\ T = <<>> /\ orig = <<>> /\ wire = <<>> /\ sent = 0 /\ calls = <<>>
    /\ structure = <<>> /\ current_field_index = 0 /\ current_type_index = 0
    /\ buffer = buffer_new.buffer /\ buffer_end_bit = 0
    /\ result = "none" /\ into = "none"

InitId ==
    /\ DeserializerIdle
    /\ hdr = [op |-> "idle"]
    /\ canid = u32_zero
    /\ parsed = NotParsed
    /\ ArrIdle

\* no identifier has been composed or received yet
Fresh == hdr.op = "idle"

\* Frame::from_message(message, priority, source_node) for a message type with TYPE_ID = Some(type_id)
FromMessage ==
    /\ Fresh
    /\ \E t \in MessageTypeIDs, p \in Priorities, s \in NodeIDs :
           /\ hdr' = [op |-> "from_message", type_id |-> t, priority |-> p, source_node |-> s]
           /\ canid' = from_message(t, p, s)
    /\ parsed' = NotParsed
    /\ UNCHANGED <<dvars, avars>>

\* Frame::from_anonymous_message(message, priority, discriminator)
FromAnonymousMessage ==
    /\ Fresh
    /\ \E t \in MessageTypeIDs, p \in Priorities, x \in Discriminators :
           /\ hdr' = [op |-> "from_anonymous_message", type_id |-> t, priority |-> p,
                      discriminator |-> x]
           /\ canid' = from_anonymous_message(t, p, x)
    /\ parsed' = NotParsed
    /\ UNCHANGED <<dvars, avars>>

\* Frame::from_request(request, priority, source_node, destination_node)
FromRequest ==
    /\ Fresh
    /\ \E t \in ServiceTypeIDs, p \in Priorities, s \in NodeIDs, d \in NodeIDs :
           /\ hdr' = [op |-> "from_request", type_id |-> t, priority |-> p,
                      source_node |-> s, destination_node |-> d]
           /\ canid' = from_request(t, p, s, d)
    /\ parsed' = NotParsed
    /\ UNCHANGED <<dvars, avars>>

\* Frame::from_response(response, priority, source_node, destination_node)
FromResponse ==
    /\ Fresh
    /\ \E t \in ServiceTypeIDs, p \in Priorities, s \in NodeIDs, d \in NodeIDs :
           /\ hdr' = [op |-> "from_response", type_id |-> t, priority |-> p,
                      source_node |-> s, destination_node |-> d]
           /\ canid' = from_response(t, p, s, d)
    /\ parsed' = NotParsed
    /\ UNCHANGED <<dvars, avars>>

\* h.id() of a message header h = new(priority, source_node)
MessageHeaderId ==
    /\ Fresh
    /\ \E t \in MessageTypeIDs, p \in Priorities, s \in NodeIDs :
           /\ hdr' = [op |-> "message_id", type_id |-> t, h |-> message_new(p, s)]
           /\ canid' = message_id(t, message_new(p, s))
    /\ parsed' = NotParsed
    /\ UNCHANGED <<dvars, avars>>

\* h.id() of an anonymous header h = new(priority, discriminator)
AnonymousHeaderId ==
    /\ Fresh
    /\ \E t \in AnonymousTypeIDs, p \in Priorities, x \in Discriminators :
           /\ hdr' = [op |-> "anonymous_id", type_id |-> t, h |-> anonymous_new(p, x)]
           /\ canid' = anonymous_id(t, anonymous_new(p, x))
    /\ parsed' = NotParsed
    /\ UNCHANGED <<dvars, avars>>

\* h.id() of a service header h = new(priority, request_not_response, source_node, destination_node)
ServiceHeaderId ==
    /\ Fresh
    /\ \E t \in ServiceTypeIDs, p \in Priorities, r \in BOOLEAN, s \in NodeIDs, d \in NodeIDs :
           /\ hdr' = [op |-> "service_id", type_id |-> t, h |-> service_new(p, r, s, d)]
           /\ canid' = service_id(t, service_new(p, r, s, d))
    /\ parsed' = NotParsed
    /\ UNCHANGED <<dvars, avars>>

\* a frame arrives from the bus with any identifier
Receive ==
    /\ Fresh
    /\ \E id \in ReceivedIDs : canid' = [v |-> id, panic |-> FALSE]
    /\ hdr' = [op |-> "received"]
    /\ parsed' = NotParsed
    /\ UNCHANGED <<dvars, avars>>

\* there is an identifier to parse and it has not been parsed yet
Parsable == ~canid.panic /\ hdr.op # "idle" /\ parsed = NotParsed

\* from_id(id) of a message header type with the given TYPE_ID
MessageFromId ==
    /\ Parsable
    /\ \E t \in MessageTypeIDs :
           parsed' = [kind |-> "message", type_id |-> t, r |-> message_from_id(t, canid.v)]
    /\ UNCHANGED <<hdr, canid>>
    /\ UNCHANGED <<dvars, avars>>

\* from_id(id) of an anonymous header type with the given TYPE_ID
AnonymousFromId ==
    /\ Parsable
    /\ \E t \in AnonymousTypeIDs :
           parsed' = [kind |-> "anonymous", type_id |-> t, r |-> anonymous_from_id(t, canid.v)]
    /\ UNCHANGED <<hdr, canid>>
    /\ UNCHANGED <<dvars, avars>>

\* from_id(id) of a service header type with the given TYPE_ID
ServiceFromId ==
    /\ Parsable
    /\ \E t \in ServiceTypeIDs :
           parsed' = [kind |-> "service", type_id |-> t, r |-> service_from_id(t, canid.v)]
    /\ UNCHANGED <<hdr, canid>>
    /\ UNCHANGED <<dvars, avars>>

NextId ==
    \/ FromMessage \/ FromAnonymousMessage \/ FromRequest \/ FromResponse
    \/ MessageHeaderId \/ AnonymousHeaderId \/ ServiceHeaderId
    \/ Receive
    \/ MessageFromId \/ AnonymousFromId \/ ServiceFromId

SpecId == InitId /\ [][NextId]_vars

-----------------------------------------------------------------------------
Next == Deserialize \/ IntoStructure

Spec == Init /\ [][Next]_vars

-----------------------------------------------------------------------------
(* The deserializer on structures with primitives as wide as pop_bits takes *)

\* a structure of two 64 bit primitives
U64Pair == << <<64>>, <<64>> >>

\* a structure of a 2 bit primitive followed by two 64 bit primitives
Uint2U64Pair == << <<2>>, <<64>>, <<64>> >>

WideLayouts == {U64Pair, Uint2U64Pair}

InitWide ==
    /\ T \in WideLayouts
    /\ orig \in Values(T)
    /\ \E extra \in Extras : wire = Encode(T, orig) \o extra
    /\ sent = 0
    /\ calls = <<>>
    /\ structure = new(T).structure
    /\ current_field_index = new(T).current_field_index
    /\ current_type_index = new(T).current_type_index
    /\ buffer = new(T).buffer
    /\ buffer_end_bit = new(T).buffer_end_bit
    /\ result = "none"
    /\ into = "none"
    /\ IdIdle
    /\ ArrIdle

SpecWide == InitWide /\ [][Next]_vars

-----------------------------------------------------------------------------
(* DeserializationBuffer on its own: push and pop_bits in any order *)

\* the most bytes pushed into one buffer
MaxStream == 16
\* the most pop_bits calls made on one buffer
MaxPops == 2

\* the byte streams pushed: two patterns without a period of 8 bits
Streams ==
    {[k \in 1..MaxStream |-> (37 * k + 11) % 256],
     [k \in 1..MaxStream |-> (201 * k + 90) % 256]}

\* the lengths of the slices pushed: a byte, a few bytes, a whole chunk of deserialize
PushSizes == {1, 3, 8}

\* the bit lengths popped: nothing, less than a byte, a byte, across bytes, words
PopSizes == {0, 1, 5, 8, 13, 32, 64}

\* the buffer the variables hold
SelfBuffer == [buffer |-> buffer, buffer_end_bit |-> buffer_end_bit]

InitBuf ==
    /\ T = <<>> /\ orig = <<>>
    /\ wire \in Streams
    /\ sent = 0 /\ calls = <<>>
    /\ structure = <<>> /\ current_field_index = 0 /\ current_type_index = 0
    /\ buffer = buffer_new.buffer
    /\ buffer_end_bit = buffer_new.buffer_end_bit
    /\ result = "none" /\ into = "none"
    /\ IdIdle
    /\ ArrIdle

\* buffer.push(tail), tail the next n bytes of the stream, when the array has room for them
BufPush ==
    /\ \E n \in PushSizes :
           /\ sent + n <= Len(wire)
           /\ buffer_end_bit + 8 * n <= BufferBits
           /\ LET b == push(SelfBuffer, SubSeq(wire, sent + 1, sent + n))
              IN /\ buffer' = b.buffer
                 /\ buffer_end_bit' = b.buffer_end_bit
           /\ sent' = sent + n
    /\ ret' = [op |-> "push"]
    /\ UNCHANGED <<T, orig, wire, calls, structure, current_field_index, current_type_index,
                   result, into, hdr, canid, parsed, item, next_start_bit, taken, counted>>

\* buffer.pop_bits(n) within its assertions: n <= 64 and n <= buffer_end_bit
BufPop ==
    /\ Len(calls) < MaxPops
    /\ \E n \in PopSizes :
           LET p == pop_bits(SelfBuffer, n)
           IN /\ n <= 64 /\ n <= buffer_end_bit
              /\ buffer' = p.buffer
              /\ buffer_end_bit' = p.buffer_end_bit
              /\ ret' = [op |-> "pop", n |-> n, bits |-> p.bits]
              /\ taken' = taken + n
              /\ calls' = Append(calls, n)
    /\ UNCHANGED <<T, orig, wire, sent, structure, current_field_index,
                   current_type_index, result, into, hdr, canid, parsed, item,
                   next_start_bit, counted>>

NextBuf == BufPush \/ BufPop

SpecBuf == InitBuf /\ [][NextBuf]_vars

-----------------------------------------------------------------------------
(* The Deserialize impls as a state machine: bytes are pushed into a buffer  *)
(* and deserialize is called on one primitive, length field or dynamic array *)
(* until it returns Finished                                                 *)

\* the most bytes on the wire for one item
MaxItemWire == 5

\* the bit lengths of the primitive types the impl is generated for
PrimitiveWidths == {2, 3, 4, 5, 7, 8, 16, 32}

\* a primitive about to be deserialized: its width, its value and the value it had at first
Primitives ==
    {[kind |-> "primitive", bit_length |-> w,
      slot |-> BitsBytes(IF set THEN Ones(w) ELSE Zeros(w)),
      was |-> BitsBytes(IF set THEN Ones(w) ELSE Zeros(w))] :
        w \in PrimitiveWidths, set \in BOOLEAN}

\* the length fields of the arrays of capacity 3 and 4, holding zero or all ones at first
Lengths ==
    {[kind |-> "length", len |-> [bit_length |-> l, current_length |-> v], was |-> v] :
        l \in {2}, v \in {0, 3}}
    \cup {[kind |-> "length", len |-> [bit_length |-> l, current_length |-> v], was |-> v] :
             l \in {3}, v \in {0, 7}}

\* DynamicArray3 and DynamicArray4 of Uint3 and of Uint8, zeroed, as the last
\* field of the structure on the wire or before other fields
Arrays ==
    {array_zeroed(c, e, t) : c \in {3, 4}, e \in {3, 8}, t \in BOOLEAN}

\* the first byte on the wire: its low bits are what a length field reads
Heads == {0, 1, 2, 3, 4, 5, 6, 7, 170, 255}

\* the bytes on the wire for one item
ItemWires ==
    {<<h>> \o [k \in 1..(MaxItemWire - 1) |-> (37 * k + 11) % 256] : h \in Heads}

InitItem ==
    /\ T = <<>> /\ orig = <<>>
    /\ wire \in ItemWires
    /\ sent = 0 /\ calls = <<>>
    /\ structure = <<>> /\ current_field_index = 0 /\ current_type_index = 0
    /\ buffer = buffer_new.buffer
    /\ buffer_end_bit = buffer_new.buffer_end_bit
    /\ result = "none" /\ into = "none"
    /\ IdIdle
    /\ item \in Primitives \cup Lengths \cup Arrays
    /\ next_start_bit = 0
    /\ ret = [op |-> "none"]
    /\ taken = 0
    /\ counted = 0

\* the last call, if any, asked for more bytes
Open == IF ret.op = "none" THEN TRUE ELSE ret.kind = "BufferInsufficient"

\* the start_bit values a call may be given: anything inside the item for the
\* first call on a primitive or a length field, zero for the first call on
\* an array, and after BufferInsufficient(k) the previous start_bit plus k
StartBits(w) == IF ret.op = "none" THEN 0..(w - 1) ELSE {next_start_bit}

\* the caller pushes the next n bytes of the wire into the buffer
ItemPush ==
    /\ Open
    /\ \E n \in 1..(Len(wire) - sent) :
           /\ buffer_end_bit + 8 * n <= BufferBits
           /\ LET b == push(SelfBuffer, SubSeq(wire, sent + 1, sent + n))
              IN /\ buffer' = b.buffer
                 /\ buffer_end_bit' = b.buffer_end_bit
           /\ sent' = sent + n
    /\ UNCHANGED <<T, orig, wire, calls, structure, current_field_index, current_type_index,
                   result, into, hdr, canid, parsed, item, next_start_bit, ret, taken,
                   counted>>

\* what every Deserialize call does to the buffer, the cursor and the counts,
\* given the buffer it leaves and what it returns
Returns(s, b, r) ==
    /\ buffer' = b.buffer
    /\ buffer_end_bit' = b.buffer_end_bit
    /\ ret' = r
    /\ next_start_bit' = IF r.kind = "BufferInsufficient" THEN s + r.bits ELSE s
    /\ taken' = taken + (buffer_end_bit - b.buffer_end_bit)
    /\ counted' = counted + r.bits
    /\ UNCHANGED <<T, orig, wire, sent, calls, structure, current_field_index,
                   current_type_index, result, into, hdr, canid, parsed>>

\* primitive.deserialize(s, &mut buffer)
PrimitiveDeserialize ==
    /\ item.kind = "primitive"
    /\ Open
    /\ \E s \in StartBits(item.bit_length) :
           LET r == primitive_deserialize(item.bit_length, item.slot, s, SelfBuffer)
           IN /\ item' = [item EXCEPT !.slot = r.slot]
              /\ Returns(s, r.b, r.ret)

\* length.deserialize(s, &mut buffer) on a DynamicArrayLength
LengthDeserialize ==
    /\ item.kind = "length"
    /\ Open
    /\ \E s \in StartBits(item.len.bit_length) :
           LET r == length_deserialize(item.len, s, SelfBuffer)
           IN /\ item' = [item EXCEPT !.len = r.len]
              /\ Returns(s, r.b, r.ret)

\* array.deserialize(start_bit, &mut buffer) on a dynamic array
ArrayDeserialize ==
    /\ item.kind = "array"
    /\ Open
    /\ LET r == array_deserialize(item, next_start_bit, SelfBuffer)
       IN /\ item' = r.a
          /\ Returns(next_start_bit, r.b, r.ret)

NextItem == ItemPush \/ PrimitiveDeserialize \/ LengthDeserialize \/ ArrayDeserialize

SpecItem == InitItem /\ [][NextItem]_vars

-----------------------------------------------------------------------------
(* Every way into pop_bits: the Deserializer on a structure, or a Deserialize *)
(* impl on one item                                                           *)

InitCodec == Init \/ InitItem

NextCodec ==
    \/ item.kind = "none" /\ Next
    \/ item.kind # "none" /\ NextItem

SpecCodec == InitCodec /\ [][NextCodec]_vars

-----------------------------------------------------------------------------
(* The claims *)

\* the whole wire is the packed encoding of orig: no excess byte follows it
ExactStream == wire = Encode(T, orig)

\* C1: feeding deserialize the LSB-first packed bytes of a structure value in one
\* call and then calling into_structure returns Ok with every field equal to
\* its original value, for byte aligned and misaligned layouts; the packed
\* bytes of the two test values are the literal bytes of the tests.
C1_RoundTrip ==
    /\ (T = ByteAligned /\ orig = ByteAlignedTest)
           => SubSeq(wire, 1, 8) = <<17, 19, 0, 0, 0, 21, 0, 23>>
    /\ (T = Misaligned /\ orig = MisalignedTest)
           => SubSeq(wire, 1, 7) = <<1, 0, 0, 0, 142, 5, 0>>
    /\ (ExactStream /\ calls = <<Len(wire)>>)
           => /\ result = "Ok"
              /\ structure = orig
              /\ into # "NotFinished"

\* C1 witness: the misaligned test value went through deserialize in one call and into_structure returned it
C1_Witness ==
    /\ T = Misaligned /\ orig = MisalignedTest
    /\ wire = <<1, 0, 0, 0, 142, 5, 0>>
    /\ calls = <<7>>
    /\ into = "Ok"
    /\ structure = MisalignedTest

\* the deserializer after the whole wire is fed in a single call
OneShot == deserialize(T, new(T), wire)

\* C2: feeding an encoded stream in two successive calls, split at any byte,
\* leaves the same structure value and the same into_structure result as
\* feeding the whole stream in a single call.
C2_Resumable ==
    (ExactStream /\ Len(calls) = 2 /\ sent = Len(wire))
        => /\ result = OneShot.result
           /\ structure = OneShot.d.structure
           /\ into_structure(T, Self) = into_structure(T, OneShot.d)
           /\ into # "none" => into = into_structure(T, OneShot.d)

\* C2 witness: the misaligned test value fed as 3 bytes, then 4 bytes, the split inside the first field
C2_Witness ==
    /\ T = Misaligned /\ orig = MisalignedTest
    /\ ExactStream
    /\ calls = <<3, 4>>
    /\ structure = MisalignedTest
    /\ into = "Ok"

\* C3: for every message header h with priority in 0..32 and source_node in
\* 0..128, id(h) is composed without a failed assertion and from_id(id(h))
\* returns Ok(h).
C3_MessageBijection ==
    /\ hdr.op = "message_id" => ~canid.panic
    /\ (parsed.kind = "message" /\ hdr.op = "message_id" /\ parsed.type_id = hdr.type_id)
           => (parsed.r.ok /\ parsed.r.h = hdr.h)

\* C3 witness: the header with the largest priority and source node was composed and parsed back
C3_Witness ==
    /\ parsed.kind = "message" /\ hdr.op = "message_id"
    /\ parsed.type_id = hdr.type_id /\ hdr.type_id = 341
    /\ hdr.h = message_new(31, 127)
    /\ parsed.r.ok

\* the type id field of an identifier for each header kind
TypeIdField(kind, id) ==
    CASE kind = "message" -> (id \div (2 ^ 8)) % (2 ^ 16)
      [] kind = "anonymous" -> (id \div (2 ^ 8)) % (2 ^ 2)
      [] kind = "service" -> (id \div (2 ^ 16)) % (2 ^ 8)

\* C4: for each header kind, from_id of an identifier whose type id field
\* (message: bits 8..24, anonymous: bits 8..10, service: bits 16..24) differs
\* from the header type's TYPE_ID returns the error and builds no header.
C4_WrongTypeIdRejected ==
    (parsed.kind # "none" /\ TypeIdField(parsed.kind, canid.v) # parsed.type_id)
        => ~parsed.r.ok

\* C5: once the bytes given to deserialize, in one call or over several, hold
\* at least one full byte beyond the bits of the structure, deserialize
\* returns Err(StructureExhausted).
C5_ExcessRejected ==
    (result # "none" /\ 8 * sent >= TotalBits(T) + 8)
        => result = "StructureExhausted"

\* C6: into_structure returns Err(NotFinished) exactly when fewer bits than
\* the total flattened bit length were fed through deserialize, and Ok exactly
\* when current_field_index equals flattened_fields_len.
C6_IntoStructure ==
    into # "none"
        => /\ (into = "NotFinished") <=> (8 * sent < TotalBits(T))
           /\ (into = "Ok") <=> (current_field_index = flattened_fields_len(T))
           /\ into \in {"Ok", "NotFinished"}

\* C6 witness: into_structure refused a structure that had been fed some of its bytes and popped some of its fields
C6_Witness ==
    /\ into = "NotFinished"
    /\ sent > 0 /\ 8 * sent < TotalBits(T)
    /\ current_field_index > 0

\* C7: from_message composes (p << 24) | (t << 8) | s: the source in bits
\* 0..7, bit 7 zero, the type id in bits 8..24, the priority in bits 24..29.
C7_FromMessage ==
    hdr.op = "from_message"
        => /\ ~canid.panic
           /\ canid.v = hdr.priority * (2 ^ 24) + hdr.type_id * (2 ^ 8) + hdr.source_node
           /\ canid.v % (2 ^ 7) = hdr.source_node
           /\ (canid.v \div (2 ^ 7)) % 2 = 0
           /\ (canid.v \div (2 ^ 8)) % (2 ^ 16) = hdr.type_id
           /\ canid.v \div (2 ^ 24) = hdr.priority

\* C7 witness: priority 16, type id 341, source node 42 composed 0x1001552A
C7_Witness ==
    /\ hdr = [op |-> "from_message", type_id |-> 341, priority |-> 16, source_node |-> 42]
    /\ canid = [v |-> 268522794, panic |-> FALSE]

\* C8: from_request composes (p << 24) | (t << 16) | (1 << 15) | (d << 8) | s:
\* the source in bits 0..7, bit 7 zero, the 7 bit destination in bits 8..15,
\* bit 15 set, the type id in bits 16..24.
C8_FromRequest ==
    hdr.op = "from_request"
        => /\ ~canid.panic
           /\ canid.v = hdr.priority * (2 ^ 24) + hdr.type_id * (2 ^ 16) + (2 ^ 15)
                          + hdr.destination_node * (2 ^ 8) + hdr.source_node
           /\ canid.v % (2 ^ 7) = hdr.source_node
           /\ (canid.v \div (2 ^ 7)) % 2 = 0
           /\ (canid.v \div (2 ^ 8)) % (2 ^ 7) = hdr.destination_node
           /\ (canid.v \div (2 ^ 15)) % 2 = 1
           /\ (canid.v \div (2 ^ 16)) % (2 ^ 8) = hdr.type_id
           /\ canid.v \div (2 ^ 24) = hdr.priority

\* C8 witness: priority 0, type id 1, source node 1, destination node 2 composed 0x018201
C8_Witness ==
    /\ hdr = [op |-> "from_request", type_id |-> 1, priority |-> 0,
              source_node |-> 1, destination_node |-> 2]
    /\ canid = [v |-> 98817, panic |-> FALSE]

\* C9: from_anonymous_message composes, for every type id a message type may
\* declare, an identifier with bits 0..8 zero, the type id in the 2 bit field
\* 8..10, the discriminator in bits 10..24 and the priority in bits 24..29.
C9_FromAnonymousMessage ==
    hdr.op = "from_anonymous_message"
        => /\ ~canid.panic
           /\ canid.v % (2 ^ 8) = 0
           /\ (canid.v \div (2 ^ 8)) % (2 ^ 2) = hdr.type_id % (2 ^ 2)
           /\ (canid.v \div (2 ^ 10)) % (2 ^ 14) = hdr.discriminator
           /\ canid.v \div (2 ^ 24) = hdr.priority

\* C10: for every service header h, from_id(id(h)) returns Ok(h) with the
\* same priority, source node, 7 bit destination node and
\* request_not_response, and id(h) is the identifier from_request composes
\* for the same priority, type id, source and destination.
C10_ServiceBijection ==
    /\ hdr.op = "service_id"
           => canid = from_request(hdr.type_id, hdr.h.priority,
                                   hdr.h.source_node, hdr.h.destination_node)
    /\ (parsed.kind = "service" /\ hdr.op = "service_id" /\ parsed.type_id = hdr.type_id)
           => (parsed.r.ok /\ parsed.r.h = hdr.h)

\* C11: for every anonymous header h with priority in 0..32 and discriminator
\* in 0..16384, the non-zero discriminators included, id(h) is composed without
\* a failed assertion and from_id(id(h)) returns Ok(h).
C11_AnonymousBijection ==
    /\ hdr.op = "anonymous_id" => ~canid.panic
    /\ (parsed.kind = "anonymous" /\ hdr.op = "anonymous_id" /\ parsed.type_id = hdr.type_id)
           => (parsed.r.ok /\ parsed.r.h = hdr.h)

\* the part of C11 that holds: headers with discriminator zero are parsed back
C11_ZeroDiscriminator ==
    (parsed.kind = "anonymous" /\ hdr.op = "anonymous_id" /\ parsed.type_id = hdr.type_id
        /\ hdr.h.discriminator = 0)
           => (parsed.r.ok /\ parsed.r.h = hdr.h)

\* bit i of the identifier at hand
IdBit(i) == (canid.v \div (2 ^ i)) % 2

\* C12 as stated: every identifier from_request or from_response composes has
\* bit 15 set, and every identifier from_message or from_anonymous_message
\* composes, for every type id and discriminator, has bit 15 clear.
C12_Bit15Distinguishes ==
    /\ hdr.op \in {"from_request", "from_response"} => (~canid.panic /\ IdBit(15) = 1)
    /\ (hdr.op \in {"from_message", "from_anonymous_message"} /\ ~canid.panic) => IdBit(15) = 0

\* C12: every identifier from_request or from_response composes has bit 15
\* set; in an identifier from_message composes bit 15 is bit 7 of the type id,
\* and in one from_anonymous_message composes it is bit 5 of the discriminator,
\* so it is clear only for type ids and discriminators with that bit clear.
C12_Bit15 ==
    /\ hdr.op \in {"from_request", "from_response"} => (~canid.panic /\ IdBit(15) = 1)
    /\ hdr.op = "from_message"
           => (~canid.panic /\ IdBit(15) = (hdr.type_id \div (2 ^ 7)) % 2)
    /\ (hdr.op = "from_anonymous_message" /\ ~canid.panic)
           => IdBit(15) = (hdr.discriminator \div (2 ^ 5)) % 2

\* C12 witness: from_message composed an identifier with bit 15 set, for type id 16383
C12_Witness ==
    /\ hdr.op = "from_message" /\ hdr.type_id = 16383
    /\ ~canid.panic /\ IdBit(15) = 1

\* C14: a deserialize call with an empty input on a deserializer in any
\* in-progress state returns Ok and leaves the structure, both indices and
\* the bit buffer, contents and occupancy, unchanged.
C14_EmptyInputNoOp ==
    [][calls' = Append(calls, 0)
          => /\ result' = "Ok"
             /\ structure' = structure
             /\ current_field_index' = current_field_index
             /\ current_type_index' = current_type_index
             /\ buffer' = buffer
             /\ buffer_end_bit' = buffer_end_bit]_vars

\* C14 witness: an empty input was given to a deserializer that had popped some
\* fields, not all, and held bits in its buffer
C14_Witness ==
    /\ Len(calls) = 2 /\ calls[1] > 0 /\ calls[2] = 0
    /\ result = "Ok"
    /\ 0 < current_field_index /\ current_field_index < flattened_fields_len(T)
    /\ buffer_end_bit > 0

\* C19: current_field_index stays within 0..flattened_fields_len() and
\* current_type_index within the number of primitives of the current field;
\* both start at zero, and no deserialize call moves the pair
\* (current_field_index, current_type_index) backwards in lexicographic order.
C19_IndicesMonotone ==
    /\ current_field_index = 0 /\ current_type_index = 0
    /\ [](/\ 0 <= current_field_index
          /\ current_field_index <= flattened_fields_len(T)
          /\ 0 <= current_type_index
          /\ current_field_index < flattened_fields_len(T)
                 => current_type_index <= field_length_of(T, current_field_index))
    /\ [][\/ current_field_index' > current_field_index
          \/ /\ current_field_index' = current_field_index
             /\ current_type_index' >= current_type_index]_vars

\* C19 witness: a second deserialize call moved the indices from (1, 1), inside
\* a field of two primitives, on to (2, 0)
C19_Witness ==
    /\ T = Grouped /\ calls = <<1, 1>>
    /\ current_field_index = 2 /\ current_type_index = 0

\* C20: for every structure whose primitives are at most 64 bits wide and every
\* sequence of deserialize calls, buffer_end_bit stays at most 120 and push
\* never writes past the 15 byte array.
C20_BufferNeverOverfilled ==
    /\ buffer_end_bit <= BufferBits
    /\ result # "Panic"

\* bits a+1..b of the stream, counting the bits of its bytes low bit first
StreamBits(a, b) ==
    [k \in 1..(b - a) |-> (wire[((a + k - 1) \div 8) + 1] \div (2 ^ ((a + k - 1) % 8))) % 2]

\* C16: over any sequence of push and pop_bits calls within the preconditions,
\* each pop_bits(n) returns, right aligned, the next n bits of the pushed bytes
\* taken low bit first, the occupancy goes down by n, and the bits left are
\* the following bits of the stream, in order from bit 0.
C16_Fifo ==
    /\ buffer_end_bit = 8 * sent - taken
    /\ BytesBits(buffer, buffer_end_bit) = StreamBits(taken, 8 * sent)
    /\ ret.op = "pop"
           => ret.bits = BitsBytes(StreamBits(taken - ret.n, taken) \o Zeros(64 - ret.n))

\* C16 witness: 13 bits were popped from a position inside a byte, with more
\* than 8 bytes left in the buffer behind them
C16_Witness ==
    /\ ret.op = "pop" /\ ret.n = 13
    /\ (taken - 13) % 8 = 5
    /\ buffer_end_bit > 64

\* the last Deserialize call returned a result of the given kind
Returned(kind) == IF ret.op = "deserialize" THEN ret.kind = kind ELSE FALSE

\* the value of the first l bits on the wire
WireLength(l) == BitsValue(StreamBits(0, l))

\* C13: after deserializing a dynamic array of capacity C from any bits,
\* current_length is at most C: a length field above C is reported as a
\* LengthOverflow error and no element at index C or above is accessed.
C13_LengthWithinCapacity ==
    item.kind = "array"
        => /\ item.current_length <= item.capacity
           /\ ~Returned("Panic")
           /\ (ret.op = "deserialize" /\ taken >= length_bit_length(item.capacity)
                 /\ WireLength(length_bit_length(item.capacity)) > item.capacity)
                  => Returned("LengthOverflow")

\* C15: when a dynamic array of element width E is the last field of the
\* structure, no length prefix is read from the wire for it and at the end of
\* the transfer its current_length is the number of whole elements in the
\* remaining bits; an array in another position has its length read first.
C15_TailArray ==
    (item.kind = "array" /\ Returned("Finished"))
        => IF item.tail
           THEN /\ counted = item.current_length * item.element_bit_length
                /\ \A i \in 1..Min(item.current_length, item.capacity) :
                       BytesBits(item.data[i], item.element_bit_length)
                           = StreamBits((i - 1) * item.element_bit_length,
                                        i * item.element_bit_length)
                /\ sent = Len(wire)
                       => item.current_length = (8 * Len(wire)) \div item.element_bit_length
           ELSE item.current_length = WireLength(length_bit_length(item.capacity))

\* the part of C15 that holds: an array that is not the last field has its
\* length prefix read first
C15_LengthReadFirst ==
    (item.kind = "array" /\ ~item.tail /\ Returned("Finished"))
        => /\ item.current_length = WireLength(length_bit_length(item.capacity))
           /\ counted = length_bit_length(item.capacity)
                          + item.current_length * item.element_bit_length

\* the width of the primitive or length field at hand
ItemWidth == IF item.kind = "length" THEN item.len.bit_length ELSE item.bit_length

\* the bits of the primitive or length field at hand, low bit first
ItemBits ==
    IF item.kind = "length" THEN NatBits(item.len.current_length, ItemWidth)
    ELSE BytesBits(item.slot, ItemWidth)

\* the bits the primitive or length field at hand had before the first call
ItemBitsBefore ==
    IF item.kind = "length" THEN NatBits(item.was, ItemWidth)
    ELSE BytesBits(item.was, ItemWidth)

\* what C17 says of the slot: bits s..W are the bits popped, bits 0..s are as
\* before, and W - s bits left the buffer
C17_SlotWritten ==
    (item.kind \in {"primitive", "length"} /\ Returned("Finished"))
        => /\ ItemBits = SubSeq(ItemBitsBefore, 1, next_start_bit)
                           \o StreamBits(0, ItemWidth - next_start_bit)
           /\ taken = ItemWidth - next_start_bit
           /\ buffer_end_bit = 8 * sent - taken

\* C17: for a primitive of width W and a start offset s with 0 <= s < W,
\* deserialize(s, buf) on a buffer of at least W - s bits writes the bits it
\* pops to bits s..W of the slot, leaves bits 0..s, and returns Finished(k)
\* with k the number of bits it removed from the buffer, W - s.
C17_PrimitiveAtOffset ==
    /\ C17_SlotWritten
    /\ (item.kind \in {"primitive", "length"} /\ Returned("Finished"))
           => ret.bits = ItemWidth - next_start_bit

\* C18: when every call that returns BufferInsufficient(k) is followed, after
\* more bytes are pushed, by a call at the previous start_bit plus k, then once
\* a call returns Finished the array's current_length is the value of the
\* first L wire bits, elements 0..current_length-1 are the successive E bit
\* groups after them, every bit was read once, the elements above are
\* untouched, and the counts returned sum to L + current_length * E.
C18_ArrayResumable ==
    (item.kind = "array" /\ Returned("Finished"))
        => LET L == length_bit_length(item.capacity)
               E == item.element_bit_length
           IN /\ item.current_length = WireLength(L)
              /\ \A i \in 1..item.current_length :
                     BytesBits(item.data[i], E) = StreamBits(L + (i - 1) * E, L + i * E)
              /\ \A i \in (item.current_length + 1)..item.capacity :
                     item.data[i] = BitsBytes(Zeros(E))
              /\ counted = L + item.current_length * E
              /\ taken = counted
              /\ buffer_end_bit = 8 * sent - taken

\* C18 witness: an array of three Uint8 was finished by a call that resumed
\* behind the length and the first element
C18_Witness ==
    /\ item.kind = "array" /\ Returned("Finished")
    /\ item.capacity = 4 /\ item.element_bit_length = 8
    /\ item.current_length = 3
    /\ next_start_bit >= 3 + 8

\* the four operations of Frame that compose an identifier
Composers == {"from_message", "from_anonymous_message", "from_request", "from_response"}

\* C21: every identifier from_message, from_anonymous_message, from_request or
\* from_response composes from in-range arguments is a 29 bit value, bits
\* 29..31 clear, with bit 7 clear.
C21_Id29Bits ==
    (hdr.op \in Composers /\ ~canid.panic)
        => /\ 0 <= canid.v /\ canid.v < 2 ^ 29
           /\ IdBit(7) = 0

\* C21 witness: from_response composed an identifier from the largest
\* priority, type id and node ids
C21_Witness ==
    /\ hdr = [op |-> "from_response", type_id |-> 255, priority |-> 31,
              source_node |-> 127, destination_node |-> 127]
    /\ ~canid.panic
    /\ canid.v = 31 * (2 ^ 24) + 255 * (2 ^ 16) + (2 ^ 15) + 127 * (2 ^ 8) + 127

\* C22: for the same priority, type id, source node and destination node
\* from_request and from_response compose the same identifier, bit 15 set in
\* both: no bit of the identifier tells a request from a response.
C22_RequestResponseSameId ==
    /\ hdr.op = "from_request"
           => /\ canid = from_response(hdr.type_id, hdr.priority,
                                       hdr.source_node, hdr.destination_node)
              /\ ~canid.panic /\ IdBit(15) = 1
    /\ hdr.op = "from_response"
           => /\ canid = from_request(hdr.type_id, hdr.priority,
                                      hdr.source_node, hdr.destination_node)
              /\ ~canid.panic /\ IdBit(15) = 1

\* C22 witness: from_response composed 0x018201 for priority 0, type id 1,
\* source node 1 and destination node 2, the identifier from_request composes
C22_Witness ==
    /\ hdr = [op |-> "from_response", type_id |-> 1, priority |-> 0,
              source_node |-> 1, destination_node |-> 2]
    /\ canid = [v |-> 98817, panic |-> FALSE]
    /\ canid = from_request(1, 0, 1, 2)

\* C23: when the deserialize of a primitive or of a dynamic array length
\* returns BufferInsufficient, the count is 0 and neither the slot nor the
\* buffer, contents and occupancy, has changed; and after the Deserializer
\* returns Ok on an unfinished structure the buffer holds fewer bits than the
\* next primitive is wide.
C23_PauseConsumesNothing ==
    /\ (item.kind \in {"primitive", "length"} /\ Returned("BufferInsufficient"))
           => /\ ret.bits = 0 /\ counted = 0
              /\ ItemBits = ItemBitsBefore
              /\ taken = 0
              /\ buffer_end_bit = 8 * sent
              /\ buffer = SubSeq(wire, 1, sent) \o Zeros(BufferBytes - sent)
    /\ (item.kind = "none" /\ result = "Ok"
          /\ current_field_index < flattened_fields_len(T))
           => /\ current_type_index < field_length_of(T, current_field_index)
              /\ buffer_end_bit < bit_length_of(T, current_field_index, current_type_index)

\* C23 witness: a Uint32 holding all ones was called at start_bit 5 with 3
\* bytes in the buffer and asked for more
C23_Witness ==
    /\ item.kind = "primitive" /\ item.bit_length = 32
    /\ item.was = BitsBytes(Ones(32))
    /\ Returned("BufferInsufficient")
    /\ next_start_bit = 5
    /\ sent = 3 /\ buffer_end_bit = 24

\* C24: the assertions of pop_bits, bit_length <= 64 and bit_length <= the
\* occupancy, hold at every call made by Deserializer::deserialize and by the
\* deserialize of a primitive, a length field or a dynamic array.
C24_PopAssertionsHold ==
    /\ result # "AssertionFailed"
    /\ ~Returned("AssertionFailed")

\* C24 witness: a DynamicArray3 of Uint3 read its length and two elements out
\* of one byte, the last pop taking every bit the buffer held
C24_Witness ==
    /\ item.kind = "array" /\ item.capacity = 3 /\ item.element_bit_length = 3
    /\ Returned("Finished")
    /\ item.current_length = 2
    /\ sent = 1 /\ taken = 8 /\ buffer_end_bit = 0

=============================================================================
